---- MODULE Spec2Model ----
(***************************************************************************)
(* A model of prodat's file-based code driver (FileCodeDriver): the        *)
(* working tree under a root directory, the commit manifests and the       *)
(* per-path blob store kept under <root>/.prodat/code, and the driver's    *)
(* operations on them; and of the entity store LocalDAL, whose methods     *)
(* keep the entities of a collection as documents of a driver.             *)
(*                                                                         *)
(* A path is a sequence of tokens (pieces of its text), so that the text   *)
(* operations of the driver (formatting and splitting a manifest record,   *)
(* matching an ignore pattern against a file name) are computed on the     *)
(* text and not assumed.  MD5 is modelled as collision free: the digest of *)
(* a file is looked up in a table of the real (truncated) hex digests, and *)
(* the digest of a directory is a record holding the text that             *)
(* checksumdir feeds into MD5.                                             *)
(***************************************************************************)
EXTENDS Integers, Sequences, FiniteSets, TLC

\* ------------------------------------------------------------------ bounds
\* The number of manifests ever written by create_ref in one behaviour.
MaxCommits == 2

\* ------------------------------------------------------- the file universe
\* "a": a plain file name.
PathA == <<"a">>
\* "b,c": a file name that contains a comma.
PathB == <<"b", ",", "c">>
\* "n.log": a file name matched by the pattern "*.log".
PathL == <<"n", ".log">>
\* ".prodatignore": the user's ignore file at the root.
PathI == <<".prodatignore">>
\* ".git/c": a file under the directory of git.
PathG == <<".git", "/", "c">>
\* ".prodat/code/tmp/a": a file under the metadata directory, in a temporary
\* directory of the code directory.
PathM == <<".prodat", "/", "code", "/", "tmp", "/", "a">>

\* The files the user edits.
Paths == {PathA, PathB}

\* Python's sorted() on the path strings: code point order
\* (".git/c" < ".prodat/code/tmp/a" < ".prodatignore" < "a" < "b,c" < "n.log").
PathOrder == <<PathG, PathM, PathI, PathA, PathB, PathL>>

\* The bytes a file of the universe may hold.
Bytes(p) == IF p = PathI THEN {"*.log"} ELSE {"x", "y"}

\* A tree is a function from the paths of the files that exist to their bytes.
EmptyTree == [p \in {} |-> "x"]

WithFile(tree, q, bytes) ==
  [p \in DOMAIN tree \cup {q} |-> IF p = q THEN bytes ELSE tree[p]]

WithoutFile(tree, q) == [p \in DOMAIN tree \ {q} |-> tree[p]]

\* -------------------------------------------------------------- digests
\* hashlib.md5(bytes).hexdigest(), first 8 hex digits.
Md5Hex(bytes) ==
  CASE bytes = "x" -> "9dd4e461"
    [] bytes = "y" -> "41529076"
    [] bytes = "*.log" -> "c94d492e"
    [] bytes = "!.prodat\n!.git" -> "dc7a5a15"
    [] bytes = "*\n!.prodat\n!.git" -> "39641acc"

\* Python's sorted() on hex digests: code point order.
HexOrder == <<"39641acc", "41529076", "9dd4e461", "c94d492e", "dc7a5a15">>

_get_filehash(bytes) == Md5Hex(bytes)

Repeat(h, n) == [i \in 1..n |-> h]

RECURSIVE SortedFrom(_, _)
SortedFrom(i, cnt) ==
  IF i > Len(HexOrder) THEN <<>>
  ELSE Repeat(HexOrder[i], cnt[HexOrder[i]]) \o SortedFrom(i + 1, cnt)

\* checksumdir._reduce_hash: MD5 over the sorted file digests.  The input
\* is one digest per file of the directory; the files' names are not fed.
_reduce_hash(dir) ==
  LET hexes == {HexOrder[i] : i \in 1..Len(HexOrder)}
      cnt == [h \in hexes |->
                Cardinality({p \in DOMAIN dir : _get_filehash(dir[p]) = h})]
  IN  [md5 |-> SortedFrom(1, cnt)]

\* checksumdir.dirhash(dir) with its defaults (include_paths=False).
_get_dirhash(dir) == _reduce_hash(dir)

\* ---------------------------------------------------------- ignore filter
\* The name of the metadata directory (Config.prodat_directory_name).
prodat_directory_name == <<".prodat">>
git_pattern == <<".git">>

\* A pattern is [neg, glob]: glob is a literal name, or <<"*">> followed by a
\* literal suffix.  Only slash-free patterns occur: such a pattern matches
\* a file or a directory of that name at any depth.
Lit(name) == [neg |-> FALSE, glob |-> name]

\* The patterns of the lines of an ignore file holding these bytes.
ParsePatterns(bytes) ==
  CASE bytes = "*.log" -> <<[neg |-> FALSE, glob |-> <<"*", ".log">>]>>
    [] bytes = "!.prodat\n!.git" ->
         <<[neg |-> TRUE, glob |-> <<".prodat">>],
           [neg |-> TRUE, glob |-> <<".git">>]>>
    [] bytes = "*\n!.prodat\n!.git" ->
         <<[neg |-> FALSE, glob |-> <<"*">>],
           [neg |-> TRUE, glob |-> <<".prodat">>],
           [neg |-> TRUE, glob |-> <<".git">>]>>
    [] OTHER -> <<Lit(<<bytes>>)>>

RECURSIVE SplitSegments(_, _)
\* The names between the "/" of a path; acc is the name being read.
SplitSegments(path, acc) ==
  IF path = <<>> THEN <<acc>>
  ELSE IF Head(path) = "/" THEN <<acc>> \o SplitSegments(Tail(path), <<>>)
  ELSE SplitSegments(Tail(path), Append(acc, Head(path)))

IsSuffix(suf, s) ==
  /\ Len(suf) <= Len(s)
  /\ SubSeq(s, Len(s) - Len(suf) + 1, Len(s)) = suf

GlobMatch(glob, name) ==
  IF glob # <<>> /\ Head(glob) = "*"
  THEN IsSuffix(Tail(glob), name)
  ELSE glob = name

\* One pattern against a relative file path: the file's own name or the
\* name of any directory above it.
PatternMatches(pat, path) ==
  LET segs == SplitSegments(path, <<>>)
  IN  \E i \in 1..Len(segs) : GlobMatch(pat.glob, segs[i])

RECURSIVE LastVerdict(_, _, _)
\* gitignore semantics: the last pattern that matches decides; a negated
\* pattern re-includes.
LastVerdict(pats, path, verdict) ==
  IF pats = <<>> THEN verdict
  ELSE LastVerdict(Tail(pats), path,
         IF PatternMatches(Head(pats), path) THEN ~Head(pats).neg ELSE verdict)

\* pathspec.PathSpec.match_tree: the files of the tree the spec matches.
match_tree(pats, all) == {p \in all : LastVerdict(pats, p, FALSE)}

\* list_all_filepaths(root): every regular file under the root, relative.
list_all_filepaths(tree) == DOMAIN tree

RECURSIVE SortedPathsFrom(_, _)
SortedPathsFrom(i, set) ==
  IF i > Len(PathOrder) THEN <<>>
  ELSE (IF PathOrder[i] \in set THEN <<PathOrder[i]>> ELSE <<>>)
         \o SortedPathsFrom(i + 1, set)

\* sorted(list(set))
SortedPaths(set) == SortedPathsFrom(1, set)

\* _get_tracked_files with one PathSpec made of the two directory patterns
\* and the lines of the ignore file: a negation in the file re-includes
\* what the directory patterns exclude.
_get_tracked_files_one_spec(tree) ==
  LET all_files == list_all_filepaths(tree)
      lines == IF PathI \in DOMAIN tree THEN ParsePatterns(tree[PathI]) ELSE <<>>
      ignored == match_tree(<<Lit(prodat_directory_name), Lit(git_pattern)>> \o lines,
                            all_files)
  IN  SortedPaths(all_files \ ignored)

\* FileCodeDriver._get_tracked_files
_get_tracked_files(tree) ==
  LET all_files == list_all_filepaths(tree)
      dot_prodat_files == match_tree(<<Lit(prodat_directory_name)>>, all_files)
      dot_git_files == match_tree(<<Lit(git_pattern)>>, all_files)
      prodatignore_files ==
        IF PathI \in DOMAIN tree
        THEN match_tree(ParsePatterns(tree[PathI]), all_files)
        ELSE {}
      ignored == dot_prodat_files \cup dot_git_files \cup prodatignore_files
  IN  SortedPaths(all_files \ ignored)

Range(s) == {s[i] : i \in 1..Len(s)}

\* _calculate_commit_hash hashing the root directory itself where it hashes
\* a temporary copy of the tracked files.
_calculate_commit_hash_of_root(tree, tracked) == _get_dirhash(tree)

\* FileCodeDriver._calculate_commit_hash: the tracked files are copied to a
\* temporary directory, which is hashed and removed.
_calculate_commit_hash(tree, tracked) ==
  _get_dirhash([p \in Range(tracked) |-> tree[p]])

\* ------------------------------------------------------ manifest records
\* f.write(f"{tracked_filepath},{filehash}\n")
FormatRecord(path, filehash) == path \o <<",">> \o <<filehash>> \o <<"\n">>

Whitespace == {" ", "\n"}

RECURSIVE RStrip(_)
\* str.rstrip()
RStrip(line) ==
  IF line # <<>> /\ line[Len(line)] \in Whitespace
  THEN RStrip(SubSeq(line, 1, Len(line) - 1))
  ELSE line

RECURSIVE FirstComma(_, _)
\* The index of the first "," of line at or after i; 0 when there is none.
FirstComma(line, i) ==
  IF i > Len(line) THEN 0
  ELSE IF line[i] = "," THEN i
  ELSE FirstComma(line, i + 1)

\* stripped.split(",", 1): the text before the first comma and the text after
\* it; ok is false when there is no comma (ValueError on unpacking).
SplitRecord(stripped) ==
  LET i == FirstComma(stripped, 1)
  IN  IF i = 0
      THEN [ok |-> FALSE, path |-> <<>>, filehash |-> <<>>]
      ELSE [ok |-> TRUE,
            path |-> SubSeq(stripped, 1, i - 1),
            filehash |-> SubSeq(stripped, i + 1, Len(stripped))]

\* os.path.join(self._code_filepath, tracked_filepath, filehash): a blob is
\* named by the directory of its path and the text of its digest.
BlobPath(path, filehash) == <<path, filehash>>

\* ------------------------------------------------------------------ state
VARIABLES
  initialized,  \* the directories .prodat and .prodat/code exist
  files,        \* the working tree under the root, without .prodat
  commits,      \* the manifests in .prodat/code: id -> [lines, mtime]
  blobs,        \* the blob files in .prodat/code: BlobPath -> bytes
  clock,        \* the number of manifests written so far (modification times)
  origin,       \* history: id -> the working tree from which its manifest was written
  undo,         \* history: the tree before a change of a file's bytes that
                \* directly follows a commit, and whether the next edit has
                \* put that tree back
  last,         \* the last call of the driver and what it returned or raised
  run,          \* the create_ref() in progress, where its reads and writes are
                \* interleaved with the editor's: empty when no call is running
  documents,    \* the "model" collection of the entity store's driver:
                \* id -> the document stored under it
  denied,       \* the files of the working tree that the filesystem refuses
                \* to remove (os.remove raises OSError)
  temp_dirs     \* the temporary directories in .prodat/code, each the tree
                \* of the files copied into it

vars ==
  <<initialized, files, commits, blobs, clock, origin, undo, last, run,
    documents, denied, temp_dirs>>

NoCommits == [c \in {} |-> [lines |-> <<>>, mtime |-> 0]]
NoBlobs == [k \in {} |-> "x"]
NoOrigin == [c \in {} |-> EmptyTree]
NoDocuments == [i \in {} |-> [id |-> "", name |-> ""]]

\* A call's outcome: err is "" when it returned; ret holds a returned digest
\* (empty for None); refs a returned list; flag a returned boolean; again
\* says that the call before was the same call and returned.
Outcome(op, arg, err, ret, refs, flag) ==
  [op |-> op, arg |-> arg, err |-> err, ret |-> ret, refs |-> refs,
   flag |-> flag,
   again |-> (last.op = op /\ last.arg = arg /\ last.err = "")]

Raised(op, arg, err) == Outcome(op, arg, err, {}, {}, FALSE)
Did(op) == Outcome(op, {}, "", {}, {}, FALSE)
Returned(op, arg, ret) == Outcome(op, arg, "", ret, {}, FALSE)
ReturnedFlag(op, arg, flag) == Outcome(op, arg, "", {}, {}, flag)

Init ==
  /\ initialized = FALSE
  /\ files = EmptyTree
  /\ commits = NoCommits
  /\ blobs = NoBlobs
  /\ clock = 0
  /\ origin = NoOrigin
  /\ undo = {}
  /\ last = [op |-> "new", arg |-> {}, err |-> "", ret |-> {}, refs |-> {},
             flag |-> FALSE, again |-> FALSE]
  /\ run = {}
  /\ documents = NoDocuments
  /\ denied = {}
  /\ temp_dirs = {}

\* ------------------------------------------------------------ the queries
\* list_refs testing os.path.isdir where it tests os.path.isfile: it lists
\* the blob directories and no manifest.
list_refs_of_directories(cs) == {}

\* FileCodeDriver.list_refs: the regular files directly in the code directory.
list_refs_of(cs) == DOMAIN cs

\* FileCodeDriver.exists_ref
exists_ref_of(cs, commit_id) == commit_id \in list_refs_of(cs)

\* _has_unstaged_changes returning exists_ref(commit_hash), its "not" lost.
_has_unstaged_changes_inverted(tree, cs) ==
  LET tracked_filepaths == _get_tracked_files(tree)
      refs == list_refs_of(cs)
  IN  IF tracked_filepaths = <<>>
      THEN Cardinality(refs) = 0
      ELSE exists_ref_of(cs, _calculate_commit_hash(tree, tracked_filepaths))

\* _has_unstaged_changes without its special case for an empty tracked set.
_has_unstaged_changes_no_special_case(tree, cs) ==
  ~exists_ref_of(cs, _calculate_commit_hash(tree, _get_tracked_files(tree)))

\* _has_unstaged_changes with the special case the wrong way round
\* (len(commits) != 0).
_has_unstaged_changes_empty_inverted(tree, cs) ==
  LET tracked_filepaths == _get_tracked_files(tree)
      refs == list_refs_of(cs)
  IN  IF tracked_filepaths = <<>>
      THEN Cardinality(refs) # 0
      ELSE ~exists_ref_of(cs, _calculate_commit_hash(tree, tracked_filepaths))

\* FileCodeDriver._has_unstaged_changes
_has_unstaged_changes(tree, cs) ==
  LET tracked_filepaths == _get_tracked_files(tree)
      refs == list_refs_of(cs)
  IN  IF tracked_filepaths = <<>>
      THEN Cardinality(refs) = 0
      ELSE ~exists_ref_of(cs, _calculate_commit_hash(tree, tracked_filepaths))

\* latest_ref sorting by modification time without reverse=True: the
\* manifest with the least modification time.
latest_ref_of_oldest(cs) ==
  IF DOMAIN cs = {} THEN {}
  ELSE {c \in DOMAIN cs : \A d \in DOMAIN cs : cs[c].mtime <= cs[d].mtime}

\* FileCodeDriver.latest_ref: the manifest with the greatest modification
\* time; the empty set stands for None.
latest_ref_of(cs) ==
  IF DOMAIN cs = {} THEN {}
  ELSE {c \in DOMAIN cs : \A d \in DOMAIN cs : cs[d].mtime <= cs[c].mtime}

\* The digest of the working tree as it is.
current_ref_of(tree) == _calculate_commit_hash(tree, _get_tracked_files(tree))

\* The tracked files of a tree with their bytes.
TrackedTree(tree) == [p \in Range(_get_tracked_files(tree)) |-> tree[p]]

\* ------------------------------------------------------------- the edits
\* The user's editor writes a file of the working tree.
WriteFile(p, bytes) ==
  /\ ~(p \in DOMAIN files /\ files[p] = bytes)
  /\ files' = WithFile(files, p, bytes)
  /\ undo' = IF /\ last.op = "create_ref" /\ last.arg = {} /\ last.err = ""
                /\ p \in DOMAIN files
             THEN {[tree |-> files, back |-> FALSE]}
             ELSE {[tree |-> u.tree, back |-> TRUE] :
                     u \in {v \in undo : /\ ~v.back
                                          /\ v.tree = WithFile(files, p, bytes)}}
  /\ last' = Did("write")
  /\ UNCHANGED <<temp_dirs, denied, documents, run, initialized, commits, blobs, clock, origin>>

\* The user removes a file of the working tree.
RemoveFile(p) ==
  /\ p \in DOMAIN files
  /\ p \notin denied
  /\ files' = WithoutFile(files, p)
  /\ undo' = {}
  /\ last' = Did("remove")
  /\ UNCHANGED <<temp_dirs, denied, documents, run, initialized, commits, blobs, clock, origin>>

\* ------------------------------------------------------------ operations
\* A call that changes nothing but what it returns.
Answer(outcome) ==
  /\ last' = outcome
  /\ undo' = {}
  /\ UNCHANGED <<temp_dirs, denied, documents, run, initialized, files, commits, blobs, clock, origin>>

\* init making the code directory anew, whatever it holds.
init_anew ==
  /\ initialized' = TRUE
  /\ commits' = NoCommits
  /\ blobs' = NoBlobs
  /\ origin' = NoOrigin
  /\ last' = ReturnedFlag("init", {}, TRUE)
  /\ undo' = {}
  /\ UNCHANGED <<temp_dirs, denied, documents, run, files, clock>>

\* FileCodeDriver.init
init ==
  /\ initialized' = TRUE
  /\ last' = ReturnedFlag("init", {}, TRUE)
  /\ undo' = {}
  /\ UNCHANGED <<temp_dirs, denied, documents, run, files, commits, blobs, clock, origin>>

\* The records of create_ref written from the last tracked file to the
\* first.
ManifestLines_reversed(tree, tracked) ==
  [i \in 1..Len(tracked) |->
     FormatRecord(tracked[Len(tracked) + 1 - i],
                  _get_filehash(tree[tracked[Len(tracked) + 1 - i]]))]

\* The records create_ref writes, one per tracked file, in tracked order.
ManifestLines(tree, tracked) ==
  [i \in 1..Len(tracked) |->
     FormatRecord(tracked[i], _get_filehash(tree[tracked[i]]))]

\* create_ref making the blob directory of each tracked file anew: the
\* blobs that were under it are gone, and the file is copied.
WriteBlobs_replacing(tree, tracked, bs) ==
  LET new == {BlobPath(q, <<_get_filehash(tree[q])>>) : q \in Range(tracked)}
      kept == {k \in DOMAIN bs : k[1] \notin Range(tracked)}
  IN  [k \in kept \cup new |-> IF k \in new THEN tree[k[1]] ELSE bs[k]]

\* create_ref keeping one blob per digest, whatever the path: a file whose
\* digest the store holds under any path is not copied.
WriteBlobs_by_digest(tree, tracked, bs) ==
  LET new == {BlobPath(q, <<_get_filehash(tree[q])>>) :
                q \in {r \in Range(tracked) :
                         \A k \in DOMAIN bs : k[2] # <<_get_filehash(tree[r])>>}}
  IN  [k \in DOMAIN bs \cup new |->
         IF k \in DOMAIN bs THEN bs[k] ELSE tree[k[1]]]

\* The blob store after create_ref's loop: a blob is copied only where no
\* file of that name exists yet.
WriteBlobs(tree, tracked, bs) ==
  LET new == {BlobPath(q, <<_get_filehash(tree[q])>>) : q \in Range(tracked)}
  IN  [k \in DOMAIN bs \cup new |->
         IF k \in DOMAIN bs THEN bs[k] ELSE tree[k[1]]]

\* create_ref moving each tracked file into the blob store where it copies
\* it: a file whose blob is new is gone from the working tree.
WriteCommit_moving(arg, tracked_filepaths, commit_hash) ==
  /\ clock < MaxCommits
  /\ clock' = clock + 1
  /\ commits' = (commit_hash :>
                   [lines |-> ManifestLines(files, tracked_filepaths),
                    mtime |-> clock + 1]) @@ commits
  /\ blobs' = WriteBlobs(files, tracked_filepaths, blobs)
  /\ files' = [p \in {q \in DOMAIN files :
                        \/ q \notin Range(tracked_filepaths)
                        \/ BlobPath(q, <<_get_filehash(files[q])>>)
                             \in DOMAIN blobs} |-> files[p]]
  /\ origin' = (commit_hash :> files) @@ origin
  /\ last' = Returned("create_ref", arg, {commit_hash})
  /\ undo' = {}
  /\ UNCHANGED <<temp_dirs, denied, documents, run, initialized>>

\* create_ref's writing of a new commit: the manifest file is opened (and
\* so created, or touched), then the blobs and the records are written.
WriteCommit(arg, tracked_filepaths, commit_hash) ==
  /\ clock < MaxCommits
  /\ clock' = clock + 1
  /\ commits' = (commit_hash :>
                   [lines |-> ManifestLines(files, tracked_filepaths),
                    mtime |-> clock + 1]) @@ commits
  /\ blobs' = WriteBlobs(files, tracked_filepaths, blobs)
  /\ origin' = (commit_hash :> files) @@ origin
  /\ last' = Returned("create_ref", arg, {commit_hash})
  /\ undo' = {}
  /\ UNCHANGED <<temp_dirs, denied, documents, run, initialized, files>>

\* create_ref without its early return for a commit that exists.
create_ref_no_early_return ==
  LET tracked_filepaths == _get_tracked_files(files)
      commit_hash == _calculate_commit_hash(files, tracked_filepaths)
  IN  WriteCommit({}, tracked_filepaths, commit_hash)

\* create_ref past its test "if commit_id:", which was false: arg is empty
\* for a call without a commit id, and holds the commit id that was passed
\* and taken for none.
create_ref_for(arg) ==
  LET tracked_filepaths == _get_tracked_files(files)
      commit_hash == _calculate_commit_hash(files, tracked_filepaths)
  IN  IF exists_ref_of(commits, commit_hash)
      THEN Answer(Returned("create_ref", arg, {commit_hash}))
      ELSE WriteCommit(arg, tracked_filepaths, commit_hash)

\* create_ref without a commit id, past the initialization check.
create_ref_new == create_ref_for({})

\* The empty string passed as a commit id: it is no digest and names no
\* manifest, and Python takes it for false.
EmptyId == [str |-> ""]

\* create_ref() without its test of is_initialized.
create_ref_unchecked == create_ref_new

\* FileCodeDriver.create_ref()
create_ref ==
  IF ~initialized
  THEN Answer(Raised("create_ref", {}, "CodeNotInitialized"))
  ELSE create_ref_new

\* FileCodeDriver.create_ref(commit_id)
create_ref_of(commit_id) ==
  IF ~initialized
  THEN Answer(Raised("create_ref", {commit_id}, "CodeNotInitialized"))
  ELSE IF commit_id = EmptyId
  THEN create_ref_for({commit_id})
  ELSE IF ~exists_ref_of(commits, commit_id)
  THEN Answer(Raised("create_ref", {commit_id}, "CommitDoesNotExist"))
  ELSE Answer(Returned("create_ref", {commit_id}, {commit_id}))

\* delete_ref emptying the code directory of its manifests where it
\* removes one.
delete_ref_every_manifest(commit_id) ==
  IF ~initialized
  THEN Answer(Raised("delete_ref", {commit_id}, "CodeNotInitialized"))
  ELSE IF ~exists_ref_of(commits, commit_id)
  THEN Answer(Raised("delete_ref", {commit_id}, "FileIOError"))
  ELSE /\ commits' = NoCommits
       /\ origin' = NoOrigin
       /\ last' = ReturnedFlag("delete_ref", {commit_id}, TRUE)
       /\ undo' = {}
       /\ UNCHANGED <<temp_dirs, denied, documents, run, initialized, files, blobs, clock>>

\* delete_ref removing, with the manifest, the blobs that it records.
delete_ref_with_blobs(commit_id) ==
  IF ~initialized
  THEN Answer(Raised("delete_ref", {commit_id}, "CodeNotInitialized"))
  ELSE IF ~exists_ref_of(commits, commit_id)
  THEN Answer(Raised("delete_ref", {commit_id}, "FileIOError"))
  ELSE /\ commits' = [c \in DOMAIN commits \ {commit_id} |-> commits[c]]
       /\ origin' = [c \in DOMAIN origin \ {commit_id} |-> origin[c]]
       /\ blobs' = LET tree == TrackedTree(origin[commit_id])
                       gone == {BlobPath(p, <<_get_filehash(tree[p])>>) : p \in DOMAIN tree}
                   IN  [k \in DOMAIN blobs \ gone |-> blobs[k]]
       /\ last' = ReturnedFlag("delete_ref", {commit_id}, TRUE)
       /\ undo' = {}
       /\ UNCHANGED <<temp_dirs, denied, documents, run, initialized, files, clock>>

\* FileCodeDriver.delete_ref
delete_ref(commit_id) ==
  IF ~initialized
  THEN Answer(Raised("delete_ref", {commit_id}, "CodeNotInitialized"))
  ELSE IF ~exists_ref_of(commits, commit_id)
  THEN Answer(Raised("delete_ref", {commit_id}, "FileIOError"))
  ELSE /\ commits' = [c \in DOMAIN commits \ {commit_id} |-> commits[c]]
       /\ origin' = [c \in DOMAIN origin \ {commit_id} |-> origin[c]]
       /\ last' = ReturnedFlag("delete_ref", {commit_id}, TRUE)
       /\ undo' = {}
       /\ UNCHANGED <<temp_dirs, denied, documents, run, initialized, files, blobs, clock>>

RECURSIVE RestoreLines_skipping(_, _, _)
\* The loop of checkout_ref passing over a record whose blob is missing.
RestoreLines_skipping(lines, bs, tree) ==
  IF lines = <<>> THEN [err |-> "", tree |-> tree]
  ELSE LET stripped == RStrip(Head(lines))
       IN  IF stripped = <<>> THEN RestoreLines_skipping(Tail(lines), bs, tree)
           ELSE LET rec == SplitRecord(stripped)
                    source == BlobPath(rec.path, rec.filehash)
                IN  IF ~rec.ok THEN [err |-> "FileIOError", tree |-> tree]
                    ELSE IF source \notin DOMAIN bs
                    THEN RestoreLines_skipping(Tail(lines), bs, tree)
                    ELSE RestoreLines_skipping(Tail(lines), bs,
                                               WithFile(tree, rec.path, bs[source]))

RECURSIVE RestoreLines(_, _, _)
\* checkout_ref's loop over the lines of the manifest: each record is split,
\* its blob looked up and copied to the working tree.  The loop stops at the
\* first malformed record or missing blob, keeping what it has written.
RestoreLines(lines, bs, tree) ==
  IF lines = <<>> THEN [err |-> "", tree |-> tree]
  ELSE LET stripped == RStrip(Head(lines))
       IN  IF stripped = <<>> THEN RestoreLines(Tail(lines), bs, tree)
           ELSE LET rec == SplitRecord(stripped)
                    source == BlobPath(rec.path, rec.filehash)
                IN  IF ~rec.ok THEN [err |-> "FileIOError", tree |-> tree]
                    ELSE IF source \notin DOMAIN bs
                    THEN [err |-> "FileIOError", tree |-> tree]
                    ELSE RestoreLines(Tail(lines), bs,
                                      WithFile(tree, rec.path, bs[source]))

\* The working tree after checkout_ref's removal loop: without its tracked
\* files, but for those whose removal raised OSError, which stay.
RemoveTracked(tree, tracked) ==
  [p \in DOMAIN tree \ (Range(tracked) \ denied) |-> tree[p]]

\* checkout_ref without its early return for a working tree that is at
\* the commit: the tracked files are removed and the manifest restored.
checkout_ref_always_restoring(commit_id) ==
  IF ~initialized
  THEN Answer(Raised("checkout_ref", {commit_id}, "CodeNotInitialized"))
  ELSE IF ~exists_ref_of(commits, commit_id)
  THEN Answer(Raised("checkout_ref", {commit_id}, "FileIOError"))
  ELSE IF _has_unstaged_changes(files, commits)
  THEN Answer(Raised("checkout_ref", {commit_id}, "UnstagedChanges"))
  ELSE LET tracked_filepaths == _get_tracked_files(files)
           done == RestoreLines(commits[commit_id].lines, blobs,
                                RemoveTracked(files, tracked_filepaths))
       IN  /\ files' = done.tree
           /\ last' = IF done.err = ""
                      THEN ReturnedFlag("checkout_ref", {commit_id}, TRUE)
                      ELSE Raised("checkout_ref", {commit_id}, done.err)
           /\ undo' = {}
           /\ UNCHANGED <<temp_dirs, denied, documents, run, initialized, commits, blobs, clock, origin>>

\* FileCodeDriver.checkout_ref
checkout_ref(commit_id) ==
  IF ~initialized
  THEN Answer(Raised("checkout_ref", {commit_id}, "CodeNotInitialized"))
  ELSE IF ~exists_ref_of(commits, commit_id)
  THEN Answer(Raised("checkout_ref", {commit_id}, "FileIOError"))
  ELSE IF _has_unstaged_changes(files, commits)
  THEN Answer(Raised("checkout_ref", {commit_id}, "UnstagedChanges"))
  ELSE LET tracked_filepaths == _get_tracked_files(files)
       IN  IF _calculate_commit_hash(files, tracked_filepaths) = commit_id
           THEN Answer(ReturnedFlag("checkout_ref", {commit_id}, TRUE))
           ELSE LET done == RestoreLines(commits[commit_id].lines, blobs,
                                         RemoveTracked(files, tracked_filepaths))
                IN  /\ files' = done.tree
                    /\ last' = IF done.err = ""
                               THEN ReturnedFlag("checkout_ref", {commit_id}, TRUE)
                               ELSE Raised("checkout_ref", {commit_id}, done.err)
                    /\ undo' = {}
                    /\ UNCHANGED <<temp_dirs, denied, documents, run, initialized, commits, blobs, clock, origin>>

\* current_ref computing its digest as create_ref does, manifest and blobs
\* written.
current_ref_committing ==
  IF ~initialized
  THEN Answer(Raised("current_ref", {}, "CodeNotInitialized"))
  ELSE LET tracked_filepaths == _get_tracked_files(files)
           commit_hash == _calculate_commit_hash(files, tracked_filepaths)
       IN  IF exists_ref_of(commits, commit_hash) \/ clock >= MaxCommits
           THEN Answer(Returned("current_ref", {}, {commit_hash}))
           ELSE /\ clock' = clock + 1
                /\ commits' = (commit_hash :>
                                 [lines |-> ManifestLines(files, tracked_filepaths),
                                  mtime |-> clock + 1]) @@ commits
                /\ blobs' = WriteBlobs(files, tracked_filepaths, blobs)
                /\ origin' = (commit_hash :> files) @@ origin
                /\ last' = Returned("current_ref", {}, {commit_hash})
                /\ undo' = {}
                /\ UNCHANGED <<temp_dirs, denied, documents, run, initialized, files>>

\* FileCodeDriver.current_ref
current_ref ==
  IF ~initialized
  THEN Answer(Raised("current_ref", {}, "CodeNotInitialized"))
  ELSE Answer(Returned("current_ref", {}, {current_ref_of(files)}))

\* FileCodeDriver.check_unstaged_changes
check_unstaged_changes ==
  IF ~initialized
  THEN Answer(Raised("check_unstaged_changes", {}, "CodeNotInitialized"))
  ELSE IF _has_unstaged_changes(files, commits)
  THEN Answer(Raised("check_unstaged_changes", {}, "UnstagedChanges"))
  ELSE Answer(ReturnedFlag("check_unstaged_changes", {}, FALSE))

\* current_hash without its call of check_unstaged_changes.
current_hash_unchecked ==
  IF ~initialized
  THEN Answer(Raised("current_hash", {}, "CodeNotInitialized"))
  ELSE Answer(Returned("current_hash", {}, {current_ref_of(files)}))

\* FileCodeDriver.current_hash
current_hash ==
  IF ~initialized
  THEN Answer(Raised("current_hash", {}, "CodeNotInitialized"))
  ELSE IF _has_unstaged_changes(files, commits)
  THEN Answer(Raised("current_hash", {}, "UnstagedChanges"))
  ELSE Answer(Returned("current_hash", {}, {current_ref_of(files)}))

\* FileCodeDriver.latest_ref
latest_ref ==
  IF ~initialized
  THEN Answer(Raised("latest_ref", {}, "CodeNotInitialized"))
  ELSE Answer(Returned("latest_ref", {}, latest_ref_of(commits)))

\* FileCodeDriver.exists_ref
exists_ref(commit_id) ==
  IF ~initialized
  THEN Answer(Raised("exists_ref", {commit_id}, "CodeNotInitialized"))
  ELSE Answer(ReturnedFlag("exists_ref", {commit_id},
                           exists_ref_of(commits, commit_id)))

\* FileCodeDriver.list_refs
list_refs ==
  IF ~initialized
  THEN Answer(Raised("list_refs", {}, "CodeNotInitialized"))
  ELSE Answer(Outcome("list_refs", {}, "", {}, list_refs_of(commits), FALSE))

\* The commit ids a caller passes: those of the manifests in the store and
\* the digest of the working tree, which may name no manifest.
CommitIds == DOMAIN commits \cup {current_ref_of(files)}

Next ==
  \/ \E p \in Paths : \E bytes \in Bytes(p) : WriteFile(p, bytes)
  \/ \E p \in Paths : RemoveFile(p)
  \/ init
  \/ create_ref
  \/ \E c \in CommitIds \cup {EmptyId} : create_ref_of(c)
  \/ \E c \in CommitIds : delete_ref(c)
  \/ \E c \in CommitIds : checkout_ref(c)
  \/ current_ref
  \/ check_unstaged_changes
  \/ current_hash
  \/ latest_ref
  \/ \E c \in CommitIds : exists_ref(c)
  \/ list_refs

Spec == Init /\ [][Next]_vars

\* ------------------------------------------------- with an ignore file
\* The driver on a working tree whose files are a log file and the ignore
\* file, which, when present, ignores the log files.
IgnorePaths == {PathL, PathI}

NextIgnore ==
  \/ \E p \in IgnorePaths : \E bytes \in Bytes(p) : WriteFile(p, bytes)
  \/ \E p \in IgnorePaths : RemoveFile(p)
  \/ init
  \/ create_ref
  \/ \E c \in CommitIds \cup {EmptyId} : create_ref_of(c)
  \/ \E c \in CommitIds : delete_ref(c)
  \/ \E c \in CommitIds : checkout_ref(c)
  \/ current_ref
  \/ check_unstaged_changes
  \/ current_hash
  \/ latest_ref
  \/ \E c \in CommitIds : exists_ref(c)
  \/ list_refs

SpecIgnore == Init /\ [][NextIgnore]_vars

\* ------------------------------------- with files in .prodat and in .git
\* The working tree holds a file under .git, a file under the metadata
\* directory (there once the engine is initialized) and an ignore file
\* whose lines negate the patterns of the two directories.
MetaPaths == {PathG, PathM, PathI}

MetaBytes(p) ==
  IF p = PathI THEN {"!.prodat\n!.git", "*\n!.prodat\n!.git"} ELSE {"x"}

NextMeta ==
  \/ \E p \in MetaPaths : \E bytes \in MetaBytes(p) :
       (p = PathM => initialized) /\ WriteFile(p, bytes)
  \/ \E p \in MetaPaths : RemoveFile(p)
  \/ init
  \/ create_ref
  \/ \E c \in CommitIds : checkout_ref(c)
  \/ \E c \in CommitIds : delete_ref(c)

SpecMeta == Init /\ [][NextMeta]_vars

\* ------------------------------------------------ with a damaged store
\* A blob file is removed from the code directory, from outside the driver.
RemoveBlob(k) ==
  /\ k \in DOMAIN blobs
  /\ blobs' = [j \in DOMAIN blobs \ {k} |-> blobs[j]]
  /\ last' = Did("remove_blob")
  /\ undo' = {}
  /\ UNCHANGED <<temp_dirs, denied, documents, run, initialized, files, commits, clock, origin>>

NextDamaged ==
  \/ \E p \in Paths : \E bytes \in Bytes(p) : WriteFile(p, bytes)
  \/ \E p \in Paths : RemoveFile(p)
  \/ \E k \in DOMAIN blobs : RemoveBlob(k)
  \/ init
  \/ create_ref
  \/ \E c \in CommitIds : checkout_ref(c)

SpecDamaged == Init /\ [][NextDamaged]_vars

\* ---------------------------------------------- files that cannot be removed
\* The filesystem comes to refuse the removal of a file of the working tree
\* (its directory is made read-only, say): os.remove raises OSError for it
\* from then on.  The file can still be written.
Deny(p) ==
  /\ p \in DOMAIN files
  /\ p \notin denied
  /\ denied' = denied \cup {p}
  /\ last' = Did("deny")
  /\ UNCHANGED <<temp_dirs, documents, run, initialized, files, commits, blobs,
                 clock, origin, undo>>

\* The filesystem allows the removal again.
Allow(p) ==
  /\ p \in denied
  /\ denied' = denied \ {p}
  /\ last' = Did("allow")
  /\ UNCHANGED <<temp_dirs, documents, run, initialized, files, commits, blobs,
                 clock, origin, undo>>

NextStuck ==
  \/ \E p \in Paths : \E bytes \in Bytes(p) : WriteFile(p, bytes)
  \/ \E p \in Paths : RemoveFile(p)
  \/ \E p \in Paths : Deny(p)
  \/ \E p \in Paths : Allow(p)
  \/ init
  \/ create_ref
  \/ \E c \in CommitIds : checkout_ref(c)

SpecStuck == Init /\ [][NextStuck]_vars

\* ------------------------------------------------------- the entity store
\* LocalDAL keeps the entities of a collection as documents of its driver, a
\* document store keyed by the "id" of a document.  A document is a function
\* from its keys to their values; the dates that create and update stamp on
\* a document are left out.  The driver answers get with the stored document
\* or with nothing, set with the document it stored, and delete with whether
\* it removed a document.
EntityIds == {"e1", "e2", "e3"}
Names == {"m", "n"}

\* BlitzDBDALDriver.get: the document under entity_id, or nothing.
driver_get(docs, entity_id) ==
  IF entity_id \in DOMAIN docs THEN {docs[entity_id]} ELSE {}

\* BlitzDBDALDriver.set: the collection with dict_obj under its id.
driver_set(docs, dict_obj) ==
  [i \in DOMAIN docs \cup {dict_obj["id"]} |->
     IF i = dict_obj["id"] THEN dict_obj ELSE docs[i]]

\* BlitzDBDALDriver.delete: the collection without entity_id.
driver_delete(docs, entity_id) == [i \in DOMAIN docs \ {entity_id} |-> docs[i]]

\* dict(original_dict) updated with every item of new_dict.
Merged(original_dict, new_dict) ==
  [k \in DOMAIN original_dict \cup DOMAIN new_dict |->
     IF k \in DOMAIN new_dict THEN new_dict[k] ELSE original_dict[k]]

\* What a caller passes to create and update: a dictionary with or without
\* the keys "id" and "name"; an id may be the empty string.
Entities ==
  {[name |-> n] : n \in Names}
    \cup {[id |-> i] : i \in EntityIds \cup {""}}
    \cup {[id |-> i, name |-> n] : i \in EntityIds \cup {""}, n \in Names}

\* The argument of a call of the entity store, as `last` records it.
EntityArg(entity_id) == {[entity_id |-> entity_id]}

\* A call of the entity store ends: the collection is docs from now on.
DalEnd(outcome, docs) ==
  /\ last' = outcome
  /\ documents' = docs
  /\ UNCHANGED <<temp_dirs, denied, initialized, files, commits, blobs, clock, origin, undo, run>>

\* get_by_id handing whatever the driver answered to the entity class.
get_by_id_unchecked(entity_id) ==
  DalEnd(Returned("get_by_id", EntityArg(entity_id),
                  IF driver_get(documents, entity_id) = {}
                  THEN {[id |-> entity_id]}
                  ELSE driver_get(documents, entity_id)),
         documents)

\* EntityMethodsCRUD.get_by_id
get_by_id(entity_id) ==
  LET obj == driver_get(documents, entity_id)
  IN  IF obj = {}
      THEN DalEnd(Raised("get_by_id", EntityArg(entity_id), "EntityNotFound"),
                  documents)
      ELSE DalEnd(Returned("get_by_id", EntityArg(entity_id), obj), documents)

\* EntityMethodsCRUD.create: an entity without an id, or with an empty one,
\* gets a new id from create_unique_hash, one no document has.
create(prodat_entity) ==
  \E unique_hash \in EntityIds \ DOMAIN documents :
    LET dict_obj ==
          IF "id" \notin DOMAIN prodat_entity \/ prodat_entity["id"] = ""
          THEN Merged(prodat_entity, [id |-> unique_hash])
          ELSE prodat_entity
        response == driver_set(documents, dict_obj)[dict_obj["id"]]
    IN  DalEnd(Returned("create", EntityArg(dict_obj["id"]), {response}),
               driver_set(documents, dict_obj))

\* EntityMethodsCRUD.update
update(prodat_entity) ==
  LET new_dict == prodat_entity
      entity_id == IF "id" \in DOMAIN new_dict THEN new_dict["id"] ELSE ""
      original == driver_get(documents, entity_id)
  IN  IF entity_id = ""
      THEN DalEnd(Raised("update", EntityArg(entity_id), "InputError"),
                  documents)
      ELSE IF original = {}
      THEN DalEnd(Raised("update", EntityArg(entity_id), "EntityNotFound"),
                  documents)
      ELSE LET merged == Merged(CHOOSE o \in original : TRUE, new_dict)
           IN  DalEnd(Returned("update", EntityArg(entity_id),
                               {driver_set(documents, merged)[entity_id]}),
                      driver_set(documents, merged))

\* EntityMethodsCRUD.delete
delete(entity_id) ==
  LET result == entity_id \in DOMAIN documents
  IN  IF ~result
      THEN DalEnd(Raised("delete", EntityArg(entity_id), "EntityNotFound"),
                  driver_delete(documents, entity_id))
      ELSE DalEnd(ReturnedFlag("delete", EntityArg(entity_id), TRUE),
                  driver_delete(documents, entity_id))

NextDal ==
  \/ \E e \in Entities : create(e)
  \/ \E e \in Entities : update(e)
  \/ \E i \in EntityIds : get_by_id(i)
  \/ \E i \in EntityIds : delete(i)

SpecDal == Init /\ [][NextDal]_vars

\* ------------------------------------------ create_ref, one file at a time
\* create_ref() reads the working tree file by file, three times over: to
\* copy it for the fingerprint, to digest each file, and to copy each file
\* into the blob store.  Here the call is taken in those steps, so that the
\* editor's writes fall between them.  A call in progress is a record of
\* `run`: its tracked paths, the index of the file it is at, the temporary
\* copy it fingerprints, its commit hash once computed (one element) and the
\* digest of the file at hand.

\* A call in progress ends, returning or raising.
End(outcome) ==
  /\ run' = {}
  /\ last' = outcome
  /\ undo' = {}
  /\ UNCHANGED <<denied, documents, initialized, files, commits, blobs, clock, origin>>

\* create_ref() starts: the initialization check, _get_tracked_files and
\* the temporary directory of _calculate_commit_hash.
create_ref_begin ==
  /\ run = {}
  /\ IF ~initialized
     THEN Answer(Raised("create_ref", {}, "CodeNotInitialized"))
     ELSE /\ clock < MaxCommits
          /\ run' = {[phase |-> "copy",
                      tracked |-> _get_tracked_files(files),
                      i |-> 1,
                      temp |-> EmptyTree,
                      hash |-> {},
                      filehash |-> ""]}
          /\ temp_dirs' = {EmptyTree}
          /\ undo' = {}
          /\ UNCHANGED <<denied, documents, initialized, files, commits, blobs, clock,
                         origin, last>>

\* The loop of _calculate_commit_hash without its "finally": when a tracked
\* file is found missing, the temporary directory is left behind.
_calculate_commit_hash_copy_leaking ==
  \E c \in run :
    /\ c.phase = "copy"
    /\ c.i <= Len(c.tracked)
    /\ LET rel_filepath == c.tracked[c.i]
       IN  IF rel_filepath \notin DOMAIN files
           THEN /\ End(Raised("create_ref", {}, "PathDoesNotExist"))
                /\ UNCHANGED temp_dirs
           ELSE /\ run' = {[c EXCEPT !.i = c.i + 1,
                                     !.temp = WithFile(c.temp, rel_filepath,
                                                       files[rel_filepath])]}
                /\ temp_dirs' = {WithFile(c.temp, rel_filepath,
                                          files[rel_filepath])}
                /\ UNCHANGED <<denied, documents, initialized, files, commits,
                               blobs, clock, origin, undo, last>>

\* One round of the loop of _calculate_commit_hash: a tracked file is
\* copied into the temporary directory, or is found missing; then the
\* "finally" removes the temporary directory.
_calculate_commit_hash_copy ==
  \E c \in run :
    /\ c.phase = "copy"
    /\ c.i <= Len(c.tracked)
    /\ LET rel_filepath == c.tracked[c.i]
       IN  IF rel_filepath \notin DOMAIN files
           THEN /\ End(Raised("create_ref", {}, "PathDoesNotExist"))
                /\ temp_dirs' = {}
           ELSE /\ run' = {[c EXCEPT !.i = c.i + 1,
                                     !.temp = WithFile(c.temp, rel_filepath,
                                                       files[rel_filepath])]}
                /\ temp_dirs' = {WithFile(c.temp, rel_filepath,
                                          files[rel_filepath])}
                /\ UNCHANGED <<denied, documents, initialized, files, commits,
                               blobs, clock, origin, undo, last>>

\* The temporary directory is hashed and removed; create_ref returns the
\* hash of a commit that exists, or opens the manifest of a new one.
create_ref_open ==
  \E c \in run :
    /\ c.phase = "copy"
    /\ c.i > Len(c.tracked)
    /\ temp_dirs' = {}
    /\ LET commit_hash == _get_dirhash(c.temp)
       IN  IF exists_ref_of(commits, commit_hash)
           THEN End(Returned("create_ref", {}, {commit_hash}))
           ELSE /\ commits' = (commit_hash :> [lines |-> <<>>,
                                               mtime |-> clock + 1]) @@ commits
                /\ clock' = clock + 1
                /\ origin' = (commit_hash :> c.temp) @@ origin
                /\ run' = {[c EXCEPT !.phase = "loop", !.i = 1,
                                     !.hash = {commit_hash}]}
                /\ UNCHANGED <<denied, documents, initialized, files, blobs, undo, last>>

\* One round of create_ref's loop, first half: the tracked file is looked
\* for in the working tree and digested.
create_ref_filehash ==
  \E c \in run :
    /\ c.phase = "loop"
    /\ c.i <= Len(c.tracked)
    /\ LET tracked_filepath == c.tracked[c.i]
       IN  IF tracked_filepath \notin DOMAIN files
           THEN End(Raised("create_ref", {}, "FileIOError")) /\ UNCHANGED temp_dirs
           ELSE /\ run' = {[c EXCEPT !.phase = "blob",
                                     !.filehash = _get_filehash(files[tracked_filepath])]}
                /\ UNCHANGED <<temp_dirs, denied, documents, initialized, files, commits, blobs, clock,
                               origin, undo, last>>

\* One round of create_ref's loop, second half: the file is copied to the
\* blob store unless a blob of that name exists, and its record is written.
create_ref_copy_blob ==
  \E c \in run :
    /\ c.phase = "blob"
    /\ LET tracked_filepath == c.tracked[c.i]
           new_blob_path == BlobPath(tracked_filepath, <<c.filehash>>)
       IN  IF new_blob_path \notin DOMAIN blobs /\ tracked_filepath \notin DOMAIN files
           THEN End(Raised("create_ref", {}, "FileIOError")) /\ UNCHANGED temp_dirs
           ELSE /\ blobs' = IF new_blob_path \in DOMAIN blobs THEN blobs
                            ELSE (new_blob_path :> files[tracked_filepath]) @@ blobs
                /\ commits' = [d \in DOMAIN commits |->
                                 IF d \in c.hash
                                 THEN [commits[d] EXCEPT
                                         !.lines = Append(@, FormatRecord(tracked_filepath,
                                                                          c.filehash))]
                                 ELSE commits[d]]
                /\ run' = {[c EXCEPT !.phase = "loop", !.i = c.i + 1]}
                /\ UNCHANGED <<temp_dirs, denied, documents, initialized, files, clock, origin, undo, last>>

\* create_ref's loop is over: the manifest is closed, the hash returned.
create_ref_return ==
  \E c \in run :
    /\ c.phase = "loop"
    /\ c.i > Len(c.tracked)
    /\ End(Returned("create_ref", {}, c.hash))
    /\ UNCHANGED temp_dirs

\* The file system refuses a makedirs, a copy or a write of the loop: the
\* manifest is closed with the records written so far and FileIOError raised.
create_ref_OSError ==
  \E c \in run :
    /\ c.phase \in {"loop", "blob"}
    /\ c.i <= Len(c.tracked)
    /\ End(Raised("create_ref", {}, "FileIOError"))
    /\ UNCHANGED temp_dirs

NextSteps ==
  \/ \E p \in Paths : \E bytes \in Bytes(p) : WriteFile(p, bytes)
  \/ \E p \in Paths : RemoveFile(p)
  \/ (run = {} /\ init)
  \/ create_ref_begin
  \/ _calculate_commit_hash_copy
  \/ create_ref_open
  \/ create_ref_filehash
  \/ create_ref_copy_blob
  \/ create_ref_return
  \/ create_ref_OSError

SpecSteps == Init /\ [][NextSteps]_vars

\* The same steps with an editor that writes one content only: the
\* temporary directory comes and goes as before while the store stays small.
NextTemp ==
  \/ \E p \in Paths : WriteFile(p, "x")
  \/ \E p \in Paths : RemoveFile(p)
  \/ (run = {} /\ init)
  \/ create_ref_begin
  \/ _calculate_commit_hash_copy
  \/ create_ref_open
  \/ create_ref_filehash
  \/ create_ref_copy_blob
  \/ create_ref_return
  \/ create_ref_OSError

SpecTemp == Init /\ [][NextTemp]_vars

\* ----------------------------------------------------------------- claims
\* The last call was create_ref() without a commit id, and it returned.
Committed(call) == call.op = "create_ref" /\ call.arg = {} /\ call.err = ""

\* The last call was checkout_ref, and it returned.
CheckedOut(call) == call.op = "checkout_ref" /\ call.err = ""

\* Tree `new` is tree `old` with the bytes of one tracked file changed.
BytesEdited(old, new) ==
  /\ DOMAIN new = DOMAIN old
  /\ \E p \in Range(_get_tracked_files(old)) :
       /\ new[p] # old[p]
       /\ \A q \in DOMAIN old \ {p} : new[q] = old[q]

\* The path is under the metadata directory or under .git.
UnderMetadata(p) ==
  Head(SplitSegments(p, <<>>)) \in {prodat_directory_name, git_pattern}

\* The place of a path in the ascending order of the paths.
PathIndex(p) == CHOOSE i \in 1..Len(PathOrder) : PathOrder[i] = p

\* C1: after create_ref() on tree T returned D, whatever was done to the
\* working tree since, a checkout_ref(D) that returns leaves every path
\* tracked in T with the bytes it had in T.
C1_RoundTrip ==
  CheckedOut(last) =>
    \A d \in last.arg \cap DOMAIN origin :
      \A p \in DOMAIN TrackedTree(origin[d]) :
        p \in DOMAIN files /\ files[p] = origin[d][p]

\* C2: with T1 committed as D1 and the tree T2, made from T1 by editing the
\* bytes of tracked files, just committed as D2: D2 differs from D1, and
\* checkout_ref(D1) returns and leaves every path of T1 with T1's bytes.
C2_CommittedRoundTrip ==
  [][\A d1 \in DOMAIN origin :
       ( /\ Committed(last)
         /\ DOMAIN TrackedTree(files) = DOMAIN TrackedTree(origin[d1])
         /\ TrackedTree(files) # TrackedTree(origin[d1])
         /\ last'.op = "checkout_ref"
         /\ last'.arg = {d1} )
       => /\ last.ret # {d1}
          /\ last'.err = ""
          /\ \A p \in DOMAIN TrackedTree(origin[d1]) :
               p \in DOMAIN files' /\ files'[p] = origin[d1][p]]_vars

\* C3: two trees that differ in the bytes of a tracked file or in the set
\* of tracked paths have different fingerprints (here: the working tree and
\* the tree of any commit in the store).
C3_ChangeSensitivity ==
  \A d \in DOMAIN origin :
    TrackedTree(origin[d]) # TrackedTree(files)
      => current_ref_of(origin[d]) # current_ref_of(files)

\* C4: a create_ref() that directly follows a create_ref() returns the same
\* digest and leaves the manifests, the blobs and latest_ref() as they were.
C4_CommitIdempotent ==
  [][(Committed(last) /\ last'.op = "create_ref" /\ last'.arg = {})
       => /\ last'.err = ""
          /\ last'.ret = last.ret
          /\ commits' = commits
          /\ blobs' = blobs
          /\ latest_ref_of(commits') = latest_ref_of(commits)]_vars

C4_Witness ==
  /\ Committed(last)
  /\ last.again
  /\ DOMAIN files # {}
  /\ last.ret = latest_ref_of(commits)

\* C5: checkout_ref(D) of an existing snapshot raises UnstagedChanges and
\* touches no file when there are unstaged changes, and returns when there
\* are none (the changes were committed, or the tree is at a snapshot).
C5_CheckoutGuard ==
  [][(initialized /\ last'.op = "checkout_ref" /\ last'.arg \subseteq DOMAIN commits)
       => IF _has_unstaged_changes(files, commits)
          THEN last'.err = "UnstagedChanges" /\ files' = files
          ELSE last'.err = ""]_vars

\* C6: a checkout_ref that returns removes or changes a file of the working
\* tree only if a manifest in the store records that file's path with the
\* digest of its bytes.
C6_NoSilentLoss ==
  [][CheckedOut(last')
       => \A p \in DOMAIN files :
            (p \notin DOMAIN files' \/ files'[p] # files[p])
              => \E d \in DOMAIN commits :
                   FormatRecord(p, _get_filehash(files[p])) \in Range(commits[d].lines)]_vars

\* C7: right after a create_ref() that returned, there are no unstaged
\* changes, the returned digest names a manifest, and a
\* check_unstaged_changes() called next returns False.
C7_CleanAfterCommit ==
  [][/\ Committed(last')
        => /\ ~_has_unstaged_changes(files', commits')
           /\ last'.ret # {}
           /\ \A d \in last'.ret : exists_ref_of(commits', d)
     /\ (Committed(last) /\ last'.op = "check_unstaged_changes")
        => last'.err = "" /\ last'.flag = FALSE]_vars

C7_Witness ==
  /\ Committed(last)
  /\ ~last.again
  /\ DOMAIN files = Paths
  /\ last.ret = latest_ref_of(commits)
  /\ clock = 2

\* C8 as claimed: right after create_ref(), changing the bytes of one
\* tracked file makes has_unstaged_changes() true whatever the store holds,
\* and putting the bytes back makes it false again.
C8_UnstagedDetection ==
  [][/\ (Committed(last) /\ last'.op = "write" /\ BytesEdited(files, files'))
        => _has_unstaged_changes(files', commits')
     /\ \A u \in undo' :
          (u.back /\ BytesEdited(files', files))
            => ~_has_unstaged_changes(files', commits')]_vars

\* C8 as amended: right after create_ref(), changing the bytes of one
\* tracked file other than the ignore file makes has_unstaged_changes()
\* true unless the fingerprint of the edited tree names a snapshot of the
\* store, and putting the bytes back makes it false again.
C8_UnstagedUnlessKnown ==
  [][/\ ( /\ Committed(last)
          /\ last'.op = "write"
          /\ BytesEdited(files, files')
          /\ (PathI \in DOMAIN files => files'[PathI] = files[PathI]) )
        => (_has_unstaged_changes(files', commits')
              <=> (\A d \in DOMAIN commits' : d # current_ref_of(files')))
     /\ \A u \in undo' :
          (u.back /\ BytesEdited(files', files))
            => ~_has_unstaged_changes(files', commits')]_vars

C8_Witness ==
  /\ \E u \in undo : u.back /\ u.tree = files
  /\ last.op = "write"
  /\ DOMAIN TrackedTree(files) = DOMAIN files
  /\ Cardinality(DOMAIN commits) = 2

\* C9: check_unstaged_changes() on an initialized engine raises
\* UnstagedChanges exactly when, the tracked set being empty, no manifest
\* exists, or, the tracked set not being empty, the fingerprint of the
\* working tree names no manifest.
C9_UnstagedRule ==
  (last.op = "check_unstaged_changes" /\ last.err # "CodeNotInitialized")
    => /\ last.err \in {"", "UnstagedChanges"}
       /\ (last.err = "UnstagedChanges")
            <=> IF DOMAIN TrackedTree(files) = {}
                THEN DOMAIN commits = {}
                ELSE current_ref_of(files) \notin DOMAIN commits

C9_Witness ==
  /\ last.op = "check_unstaged_changes"
  /\ last.err = ""
  /\ DOMAIN TrackedTree(files) = {}
  /\ current_ref_of(files) \notin DOMAIN commits

\* C10: with no tracked file and no snapshot there are unstaged changes;
\* create_ref() then returns, having written one manifest, empty, named by
\* the fingerprint of the empty tree, and there are no unstaged changes.
C10_EmptyBootstrap ==
  [][( /\ initialized
       /\ DOMAIN TrackedTree(files) = {}
       /\ DOMAIN commits = {}
       /\ last'.op = "create_ref"
       /\ last'.arg = {} )
       => /\ _has_unstaged_changes(files, commits)
          /\ last'.err = ""
          /\ last'.ret = {_get_dirhash(EmptyTree)}
          /\ DOMAIN commits' = last'.ret
          /\ \A d \in DOMAIN commits' : commits'[d].lines = <<>>
          /\ ~_has_unstaged_changes(files', commits')]_vars

C10_Witness ==
  /\ Committed(last)
  /\ files = EmptyTree
  /\ DOMAIN commits = {_get_dirhash(EmptyTree)}
  /\ clock = 1

\* C11 as claimed: on an initialized engine without unstaged changes the
\* fingerprint of the working tree names a manifest of the store, and so
\* does every digest that current_hash() returns.
C11_CleanMeansMatched ==
  /\ (initialized /\ ~_has_unstaged_changes(files, commits))
       => exists_ref_of(commits, current_ref_of(files))
  /\ (last.op = "current_hash" /\ last.err = "")
       => \A d \in last.ret : exists_ref_of(commits, d)

\* C11 as amended: on an initialized engine without unstaged changes, the
\* fingerprint of the working tree names a manifest of the store when the
\* tracked set is not empty, and the store holds some manifest when it is
\* empty; a digest returned by current_hash() is that fingerprint.
C11_CleanMeansMatchedOrEmpty ==
  /\ (initialized /\ ~_has_unstaged_changes(files, commits))
       => IF DOMAIN TrackedTree(files) # {}
          THEN exists_ref_of(commits, current_ref_of(files))
          ELSE DOMAIN commits # {}
  /\ (last.op = "current_hash" /\ last.err = "")
       => /\ last.ret = {current_ref_of(files)}
          /\ ~_has_unstaged_changes(files, commits)
          /\ DOMAIN TrackedTree(files) # {}
               => \A d \in last.ret : exists_ref_of(commits, d)

C11_Witness ==
  /\ last.op = "current_hash"
  /\ last.err = ""
  /\ DOMAIN TrackedTree(files) = Paths
  /\ Cardinality(DOMAIN commits) = 2

\* C12: when a create_ref() that had computed its fingerprint raises, that
\* fingerprint names no manifest: exists_ref is false and list_refs() does
\* not hold it.
C12_AtomicPublication ==
  [][\A c \in run :
       (run' = {} /\ last'.op = "create_ref" /\ last'.err # "")
         => \A h \in c.hash : /\ ~exists_ref_of(commits', h)
                              /\ h \notin list_refs_of(commits')]_vars

\* C13: whatever the editor writes while create_ref() runs, every blob of
\* the store holds bytes whose digest is the digest in the blob's name.
C13_BlobIntegrity ==
  \A k \in DOMAIN blobs : k[2] = <<_get_filehash(blobs[k])>>

\* C14: whatever the editor writes while create_ref() runs, a create_ref()
\* that returns the hash of a manifest it wrote has recorded in it, path by
\* path, the digests of the bytes that were hashed for that hash, and the
\* blobs it names hold those bytes.
C14_HashedIsPersisted ==
  [][\A c \in run :
       (run' = {} /\ Committed(last'))
         => \A h \in c.hash :
              /\ commits'[h].lines = ManifestLines(c.temp, c.tracked)
              /\ \A p \in Range(c.tracked) :
                   LET k == BlobPath(p, <<_get_filehash(c.temp[p])>>)
                   IN  k \in DOMAIN blobs' /\ blobs'[k] = c.temp[p]]_vars

\* C15: a checkout_ref that returns leaves every file of the working tree
\* that was not tracked when it was called, present and with its bytes.
C15_IgnoredUntouched ==
  [][CheckedOut(last')
       => \A p \in DOMAIN files \ Range(_get_tracked_files(files)) :
            p \in DOMAIN files' /\ files'[p] = files[p]]_vars

C17_SnapshotImmutable ==
  [][\A d \in DOMAIN commits :
       IF d \in DOMAIN commits'
       THEN commits'[d].lines = commits[d].lines
       ELSE last'.op = "delete_ref" /\ last'.arg = {d} /\ last'.err = ""]_vars

C17_Witness ==
  /\ last.op = "delete_ref"
  /\ last.err = ""
  /\ clock = 2
  /\ Cardinality(DOMAIN commits) = 1
  /\ \A d \in DOMAIN commits : commits[d].lines # <<>> /\ commits[d].mtime = 1

\* C18: delete_ref(D) of a manifest of the store returns; afterwards D names
\* no manifest and is not listed, the blobs, the other manifests and the
\* working tree are as they were, every blob that another manifest records
\* is in the store with the bytes that were committed, and the restore loop
\* of checkout_ref does for every other manifest what it did before.
C18_DeleteOnlyManifest ==
  [][\A d \in DOMAIN commits :
       (last'.op = "delete_ref" /\ last'.arg = {d})
         => /\ last'.err = ""
            /\ ~exists_ref_of(commits', d)
            /\ d \notin list_refs_of(commits')
            /\ blobs' = blobs
            /\ files' = files
            /\ \A e \in DOMAIN commits \ {d} :
                 /\ e \in DOMAIN commits'
                 /\ commits'[e] = commits[e]
                 /\ \A p \in DOMAIN TrackedTree(origin[e]) :
                      LET k == BlobPath(p, <<_get_filehash(origin[e][p])>>)
                      IN  k \in DOMAIN blobs' /\ blobs'[k] = origin[e][p]
                 /\ RestoreLines(commits'[e].lines, blobs', EmptyTree)
                      = RestoreLines(commits[e].lines, blobs, EmptyTree)]_vars

C18_Witness ==
  /\ last.op = "delete_ref"
  /\ last.err = ""
  /\ Cardinality(DOMAIN blobs) = 2
  /\ \E d \in last.arg : Len(d.md5) = 1
  /\ \E e \in DOMAIN commits : Len(e.md5) = 2 /\ e = current_ref_of(files)

\* C19: delete_ref(D) on an initialized engine, D naming no manifest of the
\* store, raises CommitDoesNotExist and leaves the store as it was.
C19_DeleteMissing ==
  [][\A d \in last'.arg :
       (initialized /\ last'.op = "delete_ref" /\ ~exists_ref_of(commits, d))
         => /\ last'.err = "CommitDoesNotExist"
            /\ commits' = commits
            /\ blobs' = blobs]_vars

\* C20: checkout_ref(D) on an initialized engine, D naming no manifest of
\* the store, raises CommitDoesNotExist, with or without unstaged changes,
\* and leaves the working tree and the store as they were.
C20_CheckoutMissing ==
  [][\A d \in last'.arg :
       (initialized /\ last'.op = "checkout_ref" /\ ~exists_ref_of(commits, d))
         => /\ last'.err = "CommitDoesNotExist"
            /\ files' = files
            /\ commits' = commits
            /\ blobs' = blobs]_vars

\* C21: create_ref(commit_id) on an initialized engine returns commit_id
\* when it names a manifest of the store and raises CommitDoesNotExist when
\* it names none; either way the manifests and the blobs are as they were.
C21_ValidateMode ==
  [][\A d \in last'.arg :
       (initialized /\ last'.op = "create_ref")
         => /\ IF exists_ref_of(commits, d)
               THEN last'.err = "" /\ last'.ret = {d}
               ELSE last'.err = "CommitDoesNotExist"
            /\ commits' = commits
            /\ blobs' = blobs]_vars

\* C22: while the engine is not initialized, each of current_ref,
\* create_ref, checkout_ref, list_refs, exists_ref, delete_ref, latest_ref
\* and check_unstaged_changes raises CodeNotInitialized and leaves the
\* working tree and the store as they were; init() initializes the engine,
\* it stays initialized, and then none of them raises CodeNotInitialized.
C22_NotInitialized ==
  [][/\ last'.op \in {"current_ref", "create_ref", "checkout_ref", "list_refs",
                      "exists_ref", "delete_ref", "latest_ref",
                      "check_unstaged_changes"}
        => IF ~initialized
           THEN /\ last'.err = "CodeNotInitialized"
                /\ ~initialized'
                /\ files' = files
                /\ commits' = commits
                /\ blobs' = blobs
           ELSE last'.err # "CodeNotInitialized"
     /\ last'.op = "init" => initialized'
     /\ initialized => initialized']_vars

C22_Witness ==
  /\ ~initialized
  /\ last.op = "create_ref"
  /\ last.arg = {}
  /\ last.err = "CodeNotInitialized"
  /\ DOMAIN files = Paths

\* C23: latest_ref() returns None exactly when the store holds no manifest
\* and one digest of the store otherwise; a manifest just written is the
\* latest; a step that leaves the set of manifests as it was, as a
\* create_ref() that returns a digest of the store does, leaves the latest
\* as it was, and so does a delete_ref of another manifest than the latest.
C23_LatestRef ==
  [][/\ (last'.op = "latest_ref" /\ last'.err = "")
        => /\ last'.ret = {} <=> DOMAIN commits' = {}
           /\ last'.ret \subseteq DOMAIN commits'
           /\ Cardinality(last'.ret) <= 1
           /\ last'.ret = latest_ref_of(commits')
     /\ \A d \in DOMAIN commits' \ DOMAIN commits :
          latest_ref_of(commits') = {d}
     /\ DOMAIN commits' = DOMAIN commits
        => latest_ref_of(commits') = latest_ref_of(commits)
     /\ \A d \in DOMAIN commits \ DOMAIN commits' :
          latest_ref_of(commits) # {d}
            => latest_ref_of(commits') = latest_ref_of(commits)]_vars

C23_Witness ==
  /\ last.op = "latest_ref"
  /\ last.ret = {[md5 |-> <<"41529076">>]}
  /\ [md5 |-> <<"9dd4e461">>] \in DOMAIN commits

\* C24: a manifest that appears in the store was written by a create_ref
\* that returned its name, the fingerprint of the working tree; it holds
\* one record for each tracked file, the path with the digest of the
\* file's bytes, no other record, and the records ascend by path.
C24_ManifestContent ==
  [][\A d \in DOMAIN commits' \ DOMAIN commits :
       LET lines == commits'[d].lines
           tree == TrackedTree(files)
           Record(p) == p \o <<",", Md5Hex(tree[p]), "\n">>
       IN  /\ last'.op = "create_ref"
           /\ last'.err = ""
           /\ last'.ret = {d}
           /\ d = current_ref_of(files)
           /\ Len(lines) = Cardinality(DOMAIN tree)
           /\ \A p \in DOMAIN tree : \E i \in 1..Len(lines) : lines[i] = Record(p)
           /\ \A p, q \in DOMAIN tree :
                \A i, j \in 1..Len(lines) :
                  (lines[i] = Record(p) /\ lines[j] = Record(q) /\ i < j)
                    => PathIndex(p) < PathIndex(q)]_vars

C24_Witness ==
  /\ Committed(last)
  /\ ~last.again
  /\ DOMAIN TrackedTree(files) = Paths
  /\ files[PathA] # files[PathB]
  /\ \A d \in last.ret : d \in DOMAIN commits /\ Len(commits[d].lines) = 2

\* C25: checkout_ref(D) of a manifest of the store, the fingerprint of the
\* working tree being D, returns and leaves the working tree, the
\* manifests and the blobs as they were.
C25_CheckoutNoOp ==
  [][\A d \in DOMAIN commits :
       ( /\ last'.op = "checkout_ref"
         /\ last'.arg = {d}
         /\ current_ref_of(files) = d )
       => /\ last'.err = ""
          /\ last'.flag = TRUE
          /\ files' = files
          /\ commits' = commits
          /\ blobs' = blobs]_vars

C25_Witness ==
  /\ CheckedOut(last)
  /\ last.arg = {current_ref_of(files)}
  /\ DOMAIN TrackedTree(files) = Paths
  /\ \E d \in last.arg : d \in DOMAIN origin /\ origin[d] # files

\* C26: in every step of the driver and of the editor, each blob of the
\* store stays in the store with the bytes it has.
C26_BlobsOnlyGrow ==
  [][\A k \in DOMAIN blobs : k \in DOMAIN blobs' /\ blobs'[k] = blobs[k]]_vars

C26_Witness ==
  /\ Committed(last)
  /\ ~last.again
  /\ clock = 2
  /\ Cardinality(DOMAIN commits) = 1
  /\ Cardinality(DOMAIN blobs) = 4

\* C27: whatever the ignore file holds, no file under .prodat or .git is in
\* the tracked set, no manifest records one, and no call of the driver
\* removes or changes one.
C27_MetadataNeverTracked ==
  [][/\ \A p \in Range(_get_tracked_files(files')) : ~UnderMetadata(p)
     /\ \A d \in DOMAIN commits' :
          \A i \in 1..Len(commits'[d].lines) :
            ~UnderMetadata(SplitRecord(RStrip(commits'[d].lines[i])).path)
     /\ last'.op \notin {"write", "remove"}
        => \A p \in DOMAIN files :
             UnderMetadata(p) => p \in DOMAIN files' /\ files'[p] = files[p]]_vars

C27_Witness ==
  /\ CheckedOut(last)
  /\ DOMAIN files = MetaPaths
  /\ files[PathI] = "!.prodat\n!.git"
  /\ Cardinality(DOMAIN commits) = 2

\* C28: after current_ref, check_unstaged_changes, current_hash, list_refs,
\* exists_ref or latest_ref has returned or raised, the working tree, the
\* manifests and the blobs are as they were before the call.
C28_QueriesPure ==
  [][last'.op \in {"current_ref", "check_unstaged_changes", "current_hash",
                   "list_refs", "exists_ref", "latest_ref"}
       => /\ files' = files
          /\ commits' = commits
          /\ blobs' = blobs
          /\ initialized' = initialized]_vars

C28_Witness ==
  /\ last.op = "current_hash"
  /\ last.err = "UnstagedChanges"
  /\ DOMAIN files = Paths
  /\ Cardinality(DOMAIN commits) = 2
  /\ Cardinality(DOMAIN blobs) = 3

\* C29: init() returns and the engine is initialized, whether it was
\* before or not; the manifests, the blobs and the working tree are as they
\* were.
C29_InitIdempotent ==
  [][last'.op = "init"
       => /\ last'.err = ""
          /\ initialized'
          /\ commits' = commits
          /\ blobs' = blobs
          /\ files' = files]_vars

C29_Witness ==
  /\ last.op = "init"
  /\ last.again
  /\ initialized
  /\ Cardinality(DOMAIN commits) = 2
  /\ Cardinality(DOMAIN blobs) = 2

\* The blob of a file that the manifest of commit d was written with is
\* not in the store.
BlobMissing(d) ==
  \E p \in DOMAIN TrackedTree(origin[d]) :
    BlobPath(p, <<Md5Hex(origin[d][p])>>) \notin DOMAIN blobs

\* C30: checkout_ref(D) of a manifest of the store, without unstaged
\* changes and with a working tree whose fingerprint is not D, raises
\* FileIOError when a blob that the manifest records is not in the store.
C30_MissingBlob ==
  [][\A d \in DOMAIN commits :
       ( /\ last'.op = "checkout_ref"
         /\ last'.arg = {d}
         /\ ~_has_unstaged_changes(files, commits)
         /\ current_ref_of(files) # d
         /\ BlobMissing(d) )
       => last'.err = "FileIOError" /\ last'.flag = FALSE]_vars

C30_Witness ==
  /\ last.op = "checkout_ref"
  /\ last.err = "FileIOError"
  /\ \E d \in last.arg :
       /\ d \in DOMAIN commits
       /\ DOMAIN origin[d] = {PathA}
       /\ BlobMissing(d)

C33_StoreConsistency ==
  \A c \in DOMAIN commits :
    LET lines == commits[c].lines
        restored == RestoreLines(lines, blobs, EmptyTree)
    IN  /\ \A i \in 1..Len(lines) :
             LET rec == SplitRecord(RStrip(lines[i]))
                 source == BlobPath(rec.path, rec.filehash)
             IN  /\ rec.ok
                 /\ source \in DOMAIN blobs
                 /\ <<_get_filehash(blobs[source])>> = rec.filehash
        /\ restored.err = ""
        /\ _calculate_commit_hash(restored.tree,
                                  SortedPaths(DOMAIN restored.tree)) = c

\* The blob that create_ref stores for the file at p of tree.
BlobOf(tree, p) == BlobPath(p, <<_get_filehash(tree[p])>>)

\* C34: a create_ref() that writes a manifest leaves a blob under the path
\* of each tracked file, named by the file's digest, also where two paths
\* hold the same bytes; a blob that the store already held under that path
\* and digest is kept as it is, and no other blob appears.
C34_BlobsPerPath ==
  [][(Committed(last') /\ ~(last'.ret \subseteq DOMAIN commits))
       => LET tracked == Range(_get_tracked_files(files))
          IN  /\ \A p \in tracked :
                   /\ BlobOf(files, p) \in DOMAIN blobs'
                   /\ _get_filehash(blobs'[BlobOf(files, p)])
                        = _get_filehash(files[p])
              /\ \A k \in DOMAIN blobs :
                   k \in DOMAIN blobs' /\ blobs'[k] = blobs[k]
              /\ DOMAIN blobs' =
                   DOMAIN blobs \cup {BlobOf(files, p) : p \in tracked}]_vars

\* Two manifests record PathA with the same digest, one of them written
\* from a tree where PathB holds the same bytes: the store holds two blobs.
C34_Witness ==
  /\ Committed(last)
  /\ \E c1, c2 \in DOMAIN commits :
       /\ c1 # c2
       /\ PathA \in DOMAIN origin[c1] /\ PathA \in DOMAIN origin[c2]
       /\ origin[c1][PathA] = origin[c2][PathA]
       /\ PathB \in DOMAIN origin[c1]
       /\ origin[c1][PathB] = origin[c1][PathA]
       /\ PathB \notin DOMAIN origin[c2]
  /\ Cardinality(DOMAIN blobs) = 2

\* C35: in a checkout_ref(D) that is past its guards and reaches its removal
\* loop, with a tracked file that cannot be removed, each file that D's
\* manifest records is in the working tree afterwards with the recorded
\* bytes.
C35_BestEffortRemoval ==
  [][\A d \in DOMAIN commits :
       (/\ last'.op = "checkout_ref" /\ last'.arg = {d}
        /\ initialized
        /\ ~_has_unstaged_changes(files, commits)
        /\ current_ref_of(files) # d
        /\ Range(_get_tracked_files(files)) \cap denied # {})
         => \A p \in Range(_get_tracked_files(origin[d])) :
              p \in DOMAIN files' /\ files'[p] = origin[d][p]]_vars

C37_CommitKeepsTree ==
  [][last'.op = "create_ref"
       => /\ files' = files
          /\ current_ref_of(files') = current_ref_of(files)]_vars

\* A create_ref() wrote a second manifest, from a tree with a tracked and an
\* ignored file.
C37_Witness ==
  /\ Committed(last)
  /\ Cardinality(DOMAIN commits) = 2
  /\ last.ret \subseteq DOMAIN commits
  /\ \A d \in last.ret : commits[d].mtime = 2 /\ origin[d] = files
  /\ DOMAIN files = {PathL, PathI}
  /\ _get_tracked_files(files) = <<PathI>>

\* C38: each record of a manifest, written by create_ref for a tracked path
\* and the digest of its file, is read back by checkout_ref's parsing as
\* that path and that digest, whatever characters the path holds.
C38_RecordRoundTrip ==
  \A c \in DOMAIN commits :
    LET tracked == _get_tracked_files(origin[c])
    IN  \A i \in 1..Len(commits[c].lines) :
          i <= Len(tracked) =>
            SplitRecord(RStrip(commits[c].lines[i]))
              = [ok |-> TRUE,
                 path |-> tracked[i],
                 filehash |-> <<_get_filehash(origin[c][tracked[i]])>>]

\* C39: a checkout_ref that raises, whatever the error, leaves every tracked
\* file of the working tree in existence and with the bytes it had.
C39_CheckoutAllOrNothing ==
  [][(last'.op = "checkout_ref" /\ last'.err # "")
       => \A p \in Range(_get_tracked_files(files)) :
            p \in DOMAIN files' /\ files'[p] = files[p]]_vars

\* The engine is initialized, some file is tracked and no manifest has the
\* fingerprint of the working tree.
Astray ==
  /\ initialized
  /\ _get_tracked_files(files) # <<>>
  /\ ~exists_ref_of(commits, current_ref_of(files))

\* C40: delete_ref(D) with D the fingerprint of a working tree that has a
\* tracked file returns and leaves unstaged changes; the manifest it deletes
\* is the one a create_ref() of that tree writes; from then on, as long as
\* no file is edited and create_ref is not called, checkout_ref of a
\* manifest of the store raises UnstagedChanges and changes nothing; and a
\* create_ref() that directly follows the delete_ref returns D and writes
\* under D the manifest of the tree.
C40_DeleteCurrent ==
  [][/\ \A d \in DOMAIN commits :
          (/\ last'.op = "delete_ref" /\ last'.arg = {d}
           /\ d = current_ref_of(files)
           /\ _get_tracked_files(files) # <<>>)
            => /\ last'.err = ""
               /\ _has_unstaged_changes(files', commits')
               /\ commits[d].lines
                    = ManifestLines(files, _get_tracked_files(files))
     /\ (Astray /\ last'.op = "checkout_ref" /\ last'.arg \subseteq DOMAIN commits)
          => /\ last'.err = "UnstagedChanges"
             /\ files' = files
             /\ Astray'
     /\ (/\ Astray
         /\ last.op = "delete_ref" /\ last.err = ""
         /\ last.arg = {current_ref_of(files)}
         /\ Committed(last'))
          => /\ last'.ret = last.arg
             /\ \A d \in last.arg :
                  /\ d \in DOMAIN commits'
                  /\ commits'[d].lines
                       = ManifestLines(files, _get_tracked_files(files))]_vars

====
